---- MODULE Spec2Model ----
(***************************************************************************)
(* Model of points_shape_detect/Module/trainer.py: the Trainer object, its *)
(* checkpoint files, its logging stream and the train / trainStep loops.   *)
(*                                                                         *)
(* Representation choices                                                  *)
(*  - Model weights and the optimizer's internal state are abstracted to   *)
(*    update counters: optimizer.step() yields the next value.             *)
(*  - Learning rate and BN momentum are kept in the log domain, in         *)
(*    millionths of a natural logarithm (ln is strictly increasing, so     *)
(*    max, <= and = carry over): ln(a^(e/s)) = e*ln(a)/s.  The optimizer's *)
(*    lr is base_lr times the multiplier; only the multiplier is kept.     *)
(*  - A path is [dir, file, tmp]: "./output/<dir>/<file>.pth", with        *)
(*    "_tmp" before the extension when tmp is TRUE.                        *)
(*  - The process may end at every program position.                       *)
(***************************************************************************)
EXTENDS Integers, Sequences, FiniteSets, TLC

\* ------------------------------------------------------------- bounds
MaxTime == 2          \* wall-clock readings 1..MaxTime (getCurrentTime)
MaxCalls == 5         \* client calls and process restarts, all together
NumBatches == 2       \* len(self.dataloader)
TotalEpoch == 2       \* epochs of train() that are explored
MaxSchedEpoch == 320  \* epochs explored by the schedule specification
SeedWindow == 24      \* inherited words up to this far below 2^32 - 1

\* ------------------------------------------------- program constants
decay_step == 21
bn_decay_step == 21
LnLrDecay == -274437          \* ln(0.76)  * 10^6
LnLowestDecay == -3912023     \* ln(0.02)  * 10^6
LnBnDecay == -693147          \* ln(0.5)   * 10^6
LnBnMomentum == -105361       \* ln(0.9)   * 10^6
LnBnLowestDecay == -4605170   \* ln(0.01)  * 10^6
Inf == -1                     \* float('inf'): above every loss
NoWriter == 0                 \* summary_writer = None
num_workers == 24             \* DataLoader(..., num_workers=24)
HalfWord == 65536             \* 2^16: a uint32 is kept as two 16-bit halves

Max(a, b) == IF a >= b THEN a ELSE b

\* x < m on floats, m possibly +infinity, x finite
LessThan(x, m) == m = Inf \/ (x # Inf /\ x < m)

\* ------------------------------------------------------------- paths
Names == 1..MaxTime
UserDir == MaxTime + 1        \* a directory that is no run's namespace
NoPath == [dir |-> UserDir, file |-> "none", tmp |-> FALSE]
\* a file of the caller's, outside ./output: the program never writes it
UserPath == [dir |-> UserDir, file |-> "model", tmp |-> FALSE]
\* "./output/<log_folder_name>/model_best.pth" and ".../model_last.pth"
DestPaths == [dir : Names, file : {"model_best", "model_last"}, tmp : {FALSE}]
Paths == DestPaths \cup {[p EXCEPT !.tmp = TRUE] : p \in DestPaths}

BestPath(name) == [dir |-> name, file |-> "model_best", tmp |-> FALSE]
LastPath(name) == [dir |-> name, file |-> "model_last", tmp |-> FALSE]

\* save_model_file_path.split(".pth")[0] + "_tmp.pth"
tmp_save_model_file_path_same(p) == p
tmp_save_model_file_path(p) == [p EXCEPT !.tmp = TRUE]

\* ------------------------------------------------------ file contents
EmptyDict == [model |-> 0, optimizer |-> [t |-> 0, lr |-> 0], step |-> 0,
              loss_min |-> Inf, log_folder_name |-> UserDir]
Absent == [kind |-> "absent", compat |-> "ok", model_dict |-> EmptyDict]
Partial == [kind |-> "partial", compat |-> "ok", model_dict |-> EmptyDict]
Bundle(d) == [kind |-> "bundle", compat |-> "ok", model_dict |-> d]

\* a checkpoint of another origin handed to loadModel
ForeignDict == [model |-> 1, optimizer |-> [t |-> 1, lr |-> 0], step |-> 1,
                loss_min |-> 0, log_folder_name |-> UserDir]
ForeignContents ==
    {Partial,
     [kind |-> "bundle", compat |-> "bad_model", model_dict |-> ForeignDict],
     [kind |-> "bundle", compat |-> "bad_optimizer",
      model_dict |-> ForeignDict]}

\* Method/path.py
removeFile(f, p) == [f EXCEPT ![p] = Absent]
renameFile(f, s, t) ==
    IF f[s].kind = "absent" THEN f
    ELSE [f EXCEPT ![t] = f[s], ![s] = Absent]

\* ---------------------------------------------------------- schedules
\* lr_lambda = lambda e: max(lr_decay ** (e / decay_step), lowest_decay)
lr_lambda_min(e) ==
    LET v == (e * LnLrDecay) \div decay_step
    IN  IF v <= LnLowestDecay THEN v ELSE LnLowestDecay
lr_lambda(e) == Max((e * LnLrDecay) \div decay_step, LnLowestDecay)

\* bnm_lambda = lambda e: max(bn_momentum * bn_decay ** (e / bn_decay_step),
\*                            bn_lowest_decay)
bnm_lambda(e) ==
    Max(LnBnMomentum + (e * LnBnDecay) \div bn_decay_step, LnBnLowestDecay)

\* ------------------------------------------------------------ losses
RECURSIVE SumSeq(_)
SumSeq(s) == IF s = <<>> THEN 0 ELSE Head(s) + SumSeq(Tail(s))

RECURSIVE Flatten(_)
Flatten(ts) == IF ts = <<>> THEN <<>> ELSE Head(ts).elems \o Flatten(Tail(ts))

\* data['losses']: one scalar term (shape ()) and one term of two elements
ScalarTerms == {[key |-> "scalar", dims |-> 0, elems |-> <<x>>] : x \in {1}}
VectorTerms == {[key |-> "vector", dims |-> 1, elems |-> v] :
                    v \in {<<0, 1>>, <<1, 1>>}}
LossMaps == {<<s, v>> : s \in ScalarTerms, v \in VectorTerms}

\* torch.sum(torch.cat([loss or loss.reshape(1) for loss in losses]))
loss_sum_ofMeans(ls) ==
    SumSeq([i \in 1..Len(ls) |-> SumSeq(ls[i].elems) \div Len(ls[i].elems)])
loss_sum(ls) == SumSeq(Flatten(ls))
\* torch.mean(loss_tensor), as the fraction num/den
loss_mean(t) == [num |-> SumSeq(t.elems), den |-> Len(t.elems)]

\* ------------------------------------------------------ worker seeds
\* a 32-bit word [hi, lo] stands for hi * 2^16 + lo
Word(hi, lo) == [hi |-> hi, lo |-> lo]
\* np.random.get_state()[1][0]: the inherited words that are explored
SeedWords ==
    {Word(0, 0), Word(0, HalfWord - 1), Word(HalfWord \div 2, 0)} \cup
    {Word(HalfWord - 1, HalfWord - 1 - k) : k \in 0..SeedWindow}
\* uint32 + int: NumPy before 2.0 widens the sum to int64, NumPy from 2.0
\* on keeps uint32 and wraps
Builds == {"int64", "uint32"}

\* the sum s + worker_id: hi reaches 2^16 when the sum is 2^32 or more
AddWide(s, n) ==
    Word(s.hi + (s.lo + n) \div HalfWord, (s.lo + n) % HalfWord)
AddWrapped(s, n) ==
    Word((s.hi + (s.lo + n) \div HalfWord) % HalfWord, (s.lo + n) % HalfWord)

\* np.random.seed(np.random.get_state()[1][0] + worker_id): the seed that
\* is passed, and whether np.random.seed takes it (0 <= seed <= 2^32 - 1)
worker_init_fn(s, worker_id, build) ==
    LET seed == IF build = "int64" THEN AddWide(s, worker_id)
                ELSE AddWrapped(s, worker_id)
    IN  [seed |-> seed, ok |-> seed.hi < HalfWord]

VARIABLES
    \* Trainer fields
    model, optimizer, step, loss_min, log_folder_name, summary_writer,
    scheduler, bn_scheduler, bn_momentum,
    \* the namespace the last successful load of a checkpoint restored
    restored,
    \* control: program position, return positions, locals
    pc, saveRet, tsRet, save_model_file_path, model_dict, losses, batch, epoch,
    \* environment: files, clock, operations so far
    fs, clock, calls,
    \* observation: last operation, scalars it wrote, values at entry
    ev, written, pre, preDest, savedState, ts, tr,
    \* observation across processes: the namespace this process cold-started
    \* in, and the namespaces that ended processes cold-started in
    coldName, prior,
    \* the history behind the trainer's state: epochs of train completed
    \* since step 0, and whether the state was resumed from a checkpoint
    lineage,
    \* the DataLoader's worker pool: the inherited random-state word, the
    \* arithmetic of the build, and what each started worker seeded with
    workers

trainerVars == <<model, optimizer, step, loss_min, log_folder_name,
                 summary_writer, scheduler, bn_scheduler, bn_momentum,
                 restored>>
localVars == <<saveRet, tsRet, save_model_file_path, model_dict, losses,
               batch, epoch>>
vars == <<model, optimizer, step, loss_min, log_folder_name, summary_writer,
          scheduler, bn_scheduler, bn_momentum, restored,
          pc, saveRet, tsRet, save_model_file_path, model_dict, losses, batch,
          epoch, fs, clock, calls,
          ev, written, pre, preDest, savedState, ts, tr,
          coldName, prior, lineage, workers>>
obsVars == <<coldName, prior, lineage, workers>>

\* the five fields a checkpoint carries, as the trainer holds them now
Snapshot == [model |-> model, optimizer |-> optimizer, step |-> step,
             loss_min |-> loss_min, log_folder_name |-> log_folder_name]
NoLineage == [epochs |-> 0, resumed |-> "no"]
NoSnap == [valid |-> FALSE, s |-> EmptyDict, by |-> "none", lin |-> NoLineage]
NoTs == [loss |-> 0, prevMin |-> Inf, wroteBest |-> FALSE, step |-> 0]
NoTr == [active |-> FALSE, start |-> 0, processed |-> 0, lr |-> 0, bnm |-> 0,
         sched |-> 0]
Event(op, p) == [op |-> op, path |-> p, at |-> "none"]

\* Trainer.__init__ at wall-clock reading t
TrainerFields(t) ==
    /\ model' = 0
    /\ optimizer' = [t |-> 0, lr |-> lr_lambda(0)]
    /\ step' = 0
    /\ loss_min' = Inf
    /\ log_folder_name' = t
    /\ scheduler' = 0
    /\ bn_scheduler' = 0
    /\ bn_momentum' = bnm_lambda(0)
    /\ summary_writer' = NoWriter
    /\ restored' = NoWriter

LocalsReset ==
    /\ saveRet' = "none"
    /\ tsRet' = "none"
    /\ save_model_file_path' = NoPath
    /\ model_dict' = EmptyDict
    /\ losses' = <<>>
    /\ batch' = 0
    /\ epoch' = 0

\* no worker process is started before the first batch is asked for
NoWorkers == [word |-> Word(0, 0), build |-> "int64", seeds |-> <<>>]

InitTrainer ==
    /\ model = 0
    /\ optimizer = [t |-> 0, lr |-> lr_lambda(0)]
    /\ step = 0
    /\ loss_min = Inf
    /\ log_folder_name = 1
    /\ scheduler = 0
    /\ bn_scheduler = 0
    /\ bn_momentum = bnm_lambda(0)
    /\ summary_writer = NoWriter
    /\ restored = NoWriter
    /\ pc = "ready"
    /\ saveRet = "none"
    /\ tsRet = "none"
    /\ save_model_file_path = NoPath
    /\ model_dict = EmptyDict
    /\ losses = <<>>
    /\ batch = 0
    /\ epoch = 0
    /\ fs = [p \in Paths |-> Absent]
    /\ clock = 1
    /\ calls = 0
    /\ ev = Event("construct", NoPath)
    /\ written = {}
    /\ pre = EmptyDict
    /\ preDest = Absent
    /\ savedState = [p \in DestPaths |-> NoSnap]
    /\ ts = NoTs
    /\ tr = NoTr
    /\ coldName = NoWriter
    /\ prior = {}
    /\ lineage = NoLineage

Init ==
    /\ InitTrainer
    /\ workers = NoWorkers

\* the positions inside saveModel: the temporary file is being written, is
\* written, and the destination is removed
SavePcs == {"sv_write", "sv_remove", "sv_rename"}

\* ------------------------------------------------------ process life
\* the process ends at any position (kill, power loss, uncaught exception):
\* the Trainer is gone, the files stay; a new process constructs
\* Trainer() with log_folder_name = getCurrentTime()
Restart ==
    /\ calls < MaxCalls
    /\ calls' = calls + 1
    /\ \E t \in {clock, clock + 1} \cap Names :
          /\ TrainerFields(t)
          /\ clock' = t
    /\ LocalsReset
    /\ pc' = "ready"
    /\ ev' = [op |-> "restart", path |-> save_model_file_path,
              at |-> IF pc \in SavePcs THEN pc ELSE "none"]
    /\ written' = {}
    /\ tr' = NoTr
    /\ ts' = NoTs
    /\ pre' = EmptyDict
    /\ prior' = prior \cup ({coldName} \ {NoWriter})
    /\ coldName' = NoWriter
    /\ lineage' = NoLineage
    /\ workers' = workers
    /\ UNCHANGED <<fs, preDest, savedState>>

\* a client calls a method of the Trainer; what the previous call left for
\* observation is dropped
ClientCall ==
    /\ pc = "ready"
    /\ calls < MaxCalls
    /\ calls' = calls + 1

\* ------------------------------------------------------- loadModel
\* SummaryWriter("./logs/" + self.log_folder_name + "/")
loadSummaryWriter(name) == name

\* the fields after lines 87-91, from the dictionary d and the current ones
Restored_keepLossMin(d, cur) == [d EXCEPT !.loss_min = cur.loss_min]
Restored_keepName(d, cur) == [d EXCEPT !.log_folder_name = cur.log_folder_name]
Restored(d, cur) ==
    [model |-> d.model, optimizer |-> d.optimizer, step |-> d.step,
     loss_min |-> d.loss_min, log_folder_name |-> d.log_folder_name]

loadModelObserved(op, p) ==
    /\ pre' = Snapshot
    /\ ev' = [op |-> op, path |-> p,
              at |-> IF summary_writer = NoWriter THEN "first" ELSE "again"]
    /\ written' = {}
    /\ ts' = NoTs
    /\ preDest' = Absent
    /\ UNCHANGED <<localVars, fs, clock, savedState, tr>>

\* a trainer whose first loadModel finds no file starts a run of its own
coldStartObserved ==
    /\ coldName' = IF summary_writer = NoWriter THEN log_folder_name
                   ELSE coldName
    /\ prior' = prior
    /\ lineage' = lineage
    /\ workers' = workers

\* not os.path.exists(model_file_path): cold start
loadModelMissing_noWriter(p, c) ==
    /\ ClientCall
    /\ coldStartObserved
    /\ c.kind = "absent"
    /\ pc' = "ready"
    /\ loadModelObserved("load_cold", p)
    /\ UNCHANGED trainerVars
loadModelMissing(p, c) ==
    /\ ClientCall
    /\ coldStartObserved
    /\ c.kind = "absent"
    /\ summary_writer' = loadSummaryWriter(log_folder_name)
    /\ pc' = "ready"
    /\ loadModelObserved("load_cold", p)
    /\ UNCHANGED <<model, optimizer, step, loss_min, log_folder_name,
                   scheduler, bn_scheduler, bn_momentum, restored>>

\* the history behind a trainer that has loaded the file at p: the one
\* behind the file; "last" when a new trainer resumes from the
\* model_last.pth that train wrote at the end of an epoch of a run that was
\* itself not interrupted or resumed in the same way
Resumed(p) ==
    LET sv == savedState[p]
    IN  [epochs |-> sv.lin.epochs,
         resumed |-> IF /\ p.file = "model_last"
                        /\ sv.by = "epoch"
                        /\ sv.lin.resumed \in {"no", "last"}
                        /\ summary_writer = NoWriter
                     THEN "last" ELSE "other"]

\* the file exists and every stage of lines 85-93 succeeds
loadModelExisting(p, c) ==
    /\ ClientCall
    /\ c.kind = "bundle"
    /\ c.compat = "ok"
    /\ UNCHANGED <<coldName, prior, workers>>
    /\ lineage' = Resumed(p)
    /\ LET r == Restored(c.model_dict, Snapshot)
       IN  /\ model' = r.model
           /\ optimizer' = r.optimizer
           /\ step' = r.step
           /\ loss_min' = r.loss_min
           /\ log_folder_name' = r.log_folder_name
           /\ summary_writer' = loadSummaryWriter(r.log_folder_name)
           /\ restored' = c.model_dict.log_folder_name
    /\ pc' = "ready"
    /\ loadModelObserved("load_ok", p)
    /\ UNCHANGED <<scheduler, bn_scheduler, bn_momentum>>

\* torch.load raises on a truncated or corrupt file: nothing was assigned
loadModelCorrupt(p, c) ==
    /\ ClientCall
    /\ c.kind = "partial"
    /\ pc' = "raised"
    /\ loadModelObserved("load_fail", p)
    /\ UNCHANGED trainerVars
    /\ UNCHANGED obsVars

\* model.load_state_dict raises: the entries that matched were copied
\* before the error is reported (none, or some)
loadModelBadModel(p, c) ==
    /\ ClientCall
    /\ c.kind = "bundle"
    /\ c.compat = "bad_model"
    /\ model' \in {model, -1}
    /\ pc' = "raised"
    /\ loadModelObserved("load_fail", p)
    /\ UNCHANGED <<optimizer, step, loss_min, log_folder_name, summary_writer,
                   restored, scheduler, bn_scheduler, bn_momentum>>
    /\ UNCHANGED obsVars

\* optimizer.load_state_dict raises after model.load_state_dict succeeded
loadModelBadOptimizer(p, c) ==
    /\ ClientCall
    /\ c.kind = "bundle"
    /\ c.compat = "bad_optimizer"
    /\ model' = c.model_dict.model
    /\ pc' = "raised"
    /\ loadModelObserved("load_fail", p)
    /\ UNCHANGED <<optimizer, step, loss_min, log_folder_name, summary_writer,
                   restored, scheduler, bn_scheduler, bn_momentum>>
    /\ UNCHANGED obsVars

\* the files a client can name: the program's own, and one of its own making
Readable ==
    {<<p, fs[p]>> : p \in DestPaths} \cup
    {<<UserPath, c>> : c \in ForeignContents}

\* ------------------------------------------------------- saveModel
\* model_dict = {'model': ..., 'optimizer': ..., 'step': ..., ...}
MakeModelDict(m, o, s, lm, n) ==
    [model |-> m, optimizer |-> o, step |-> s, loss_min |-> lm,
     log_folder_name |-> n]

\* lines 100-113, up to the point where torch.save has opened the temporary
\* file and written part of it; o and lm are self.optimizer's state and
\* self.loss_min at the call
saveModelEnter_staleMin(p, ret, o, lm) ==
    /\ model_dict' = MakeModelDict(model, o, step, loss_min, log_folder_name)
    /\ save_model_file_path' = p
    /\ saveRet' = ret
    /\ preDest' = fs[p]
    /\ fs' = [fs EXCEPT ![tmp_save_model_file_path(p)] = Partial]
    /\ pc' = "sv_write"
saveModelEnter(p, ret, o, lm) ==
    /\ model_dict' = MakeModelDict(model, o, step, lm, log_folder_name)
    /\ save_model_file_path' = p
    /\ saveRet' = ret
    /\ preDest' = fs[p]
    /\ fs' = [fs EXCEPT ![tmp_save_model_file_path(p)] = Partial]
    /\ pc' = "sv_write"

\* the paths a client saves to: the run's two files
ClientSavePaths == {BestPath(log_folder_name), LastPath(log_folder_name)}

saveModelCall(p) ==
    /\ ClientCall
    /\ saveModelEnter(p, "ready", optimizer, loss_min)
    /\ ev' = Event("save_begin", p)
    /\ written' = {}
    /\ ts' = NoTs
    /\ pre' = EmptyDict
    /\ UNCHANGED <<trainerVars, tsRet, losses, batch, epoch, clock,
                   savedState, tr>>
    /\ UNCHANGED obsVars

\* torch.save(model_dict, tmp_save_model_file_path) completes
torchSave ==
    /\ pc = "sv_write"
    /\ fs' = [fs EXCEPT ![tmp_save_model_file_path(save_model_file_path)] =
                            Bundle(model_dict)]
    /\ pc' = "sv_remove"
    /\ ev' = Event("save_written", save_model_file_path)
    /\ written' = {}
    /\ UNCHANGED <<trainerVars, localVars, clock, calls, pre, preDest,
                   savedState, ts, tr>>
    /\ UNCHANGED obsVars

\* removeFile(save_model_file_path)
saveRemove ==
    /\ pc = "sv_remove"
    /\ fs' = removeFile(fs, save_model_file_path)
    /\ savedState' = [savedState EXCEPT ![save_model_file_path] = NoSnap]
    /\ pc' = "sv_rename"
    /\ ev' = Event("save_removed", save_model_file_path)
    /\ written' = {}
    /\ UNCHANGED <<trainerVars, localVars, clock, calls, pre, preDest,
                   ts, tr>>
    /\ UNCHANGED obsVars

\* renameFile(tmp_save_model_file_path, save_model_file_path); return True
saveRename ==
    /\ pc = "sv_rename"
    /\ fs' = renameFile(fs, tmp_save_model_file_path(save_model_file_path),
                        save_model_file_path)
    /\ savedState' = [savedState EXCEPT ![save_model_file_path] =
                          [valid |-> TRUE, s |-> Snapshot, by |-> saveRet,
                           lin |-> lineage]]
    /\ ts' = IF save_model_file_path.file = "model_best"
             THEN [ts EXCEPT !.wroteBest = TRUE] ELSE ts
    /\ pc' = saveRet
    /\ saveRet' = "none"
    /\ save_model_file_path' = NoPath
    /\ model_dict' = EmptyDict
    /\ preDest' = Absent
    /\ ev' = Event("save_done", save_model_file_path)
    /\ written' = {}
    /\ UNCHANGED <<trainerVars, tsRet, losses, batch, epoch, clock,
                   calls, pre, tr>>
    /\ UNCHANGED obsVars

\* ------------------------------------------------------- trainStep
Scalar(tag, s, num, den) ==
    [dir |-> summary_writer, tag |-> tag, step |-> s,
     value |-> [num |-> num, den |-> den]]

\* if loss_sum_float < self.loss_min
IsNewBest_orEqual(l, lm) == lm = Inf \/ l <= lm
IsNewBest(l, lm) == LessThan(l, lm)

\* lines 143-171: forward pass, the aggregate loss is logged and compared;
\* a new minimum is stored and saveModel("model_best.pth") is entered
trainStepForward(ls, ret) ==
    LET l == loss_sum(ls)
    IN  /\ losses' = ls
        /\ tsRet' = ret
        /\ written' = {Scalar("Loss/loss_sum", step, l, 1)}
        /\ ts' = [loss |-> l, prevMin |-> loss_min, wroteBest |-> FALSE,
                  step |-> step]
        /\ IF IsNewBest(l, loss_min)
           THEN /\ loss_min' = l
                /\ saveModelEnter(BestPath(log_folder_name), "ts_rest",
                                  optimizer, l)
           ELSE /\ loss_min' = loss_min
                /\ pc' = "ts_rest"
                /\ preDest' = Absent
                /\ UNCHANGED <<model_dict, save_model_file_path, saveRet, fs>>
        /\ ev' = Event("ts_forward", NoPath)
        /\ UNCHANGED obsVars
        /\ pre' = EmptyDict
        /\ UNCHANGED <<model, optimizer, step, log_folder_name, summary_writer,
                       restored, scheduler, bn_scheduler, bn_momentum,
                       batch, epoch,
                       clock, savedState, tr>>

\* a client calls trainStep(data) itself
trainStepCall(ls) ==
    /\ ClientCall
    /\ summary_writer # NoWriter
    /\ trainStepForward(ls, "ready")

\* lines 173-181: the per-term means are logged, backward, optimizer.step()
trainStepRest ==
    /\ pc = "ts_rest"
    /\ written' = {Scalar("Loss/" \o losses[i].key, step,
                          loss_mean(losses[i]).num, loss_mean(losses[i]).den) :
                      i \in 1..Len(losses)}
    /\ model' = model + 1
    /\ optimizer' = [optimizer EXCEPT !.t = @ + 1]
    /\ pc' = tsRet
    /\ tsRet' = "none"
    /\ losses' = <<>>
    /\ ev' = Event("ts_done", NoPath)
    /\ tr' = IF tr.active THEN [tr EXCEPT !.processed = @ + 1] ELSE tr
    /\ UNCHANGED <<step, loss_min, log_folder_name, summary_writer, restored,
                   scheduler, bn_scheduler, bn_momentum, saveRet,
                   save_model_file_path, model_dict, batch, epoch, fs, clock,
                   calls, pre, preDest, savedState, ts>>
    /\ UNCHANGED obsVars

\* self.summary_writer is None: add_scalar raises AttributeError
callWithoutWriter ==
    /\ ClientCall
    /\ summary_writer = NoWriter
    /\ pc' = "raised"
    /\ ev' = Event("no_writer", NoPath)
    /\ written' = {}
    /\ ts' = NoTs
    /\ pre' = EmptyDict
    /\ preDest' = Absent
    /\ UNCHANGED <<trainerVars, localVars, fs, clock, savedState, tr>>
    /\ UNCHANGED obsVars

\* ------------------------------------------------------------ train
\* a client calls train()
trainCall ==
    /\ ClientCall
    /\ summary_writer # NoWriter
    /\ epoch' = 0
    /\ pc' = "epoch"
    /\ tr' = [active |-> TRUE, start |-> step, processed |-> 0,
              lr |-> optimizer.lr, bnm |-> bn_momentum, sched |-> scheduler]
    /\ ev' = Event("train", NoPath)
    /\ written' = {}
    /\ ts' = NoTs
    /\ pre' = EmptyDict
    /\ preDest' = Absent
    /\ UNCHANGED <<trainerVars, saveRet, tsRet, save_model_file_path,
                   model_dict, losses, batch, fs, clock, savedState>>
    /\ UNCHANGED obsVars

\* lines 186-196: head of an epoch, the learning rate is logged.  train()
\* runs 10000000 epochs: it ends when the process is ended, here at the
\* latest after TotalEpoch epochs
trainEpochHead ==
    /\ pc = "epoch"
    /\ epoch < TotalEpoch
    /\ written' = {Scalar("Lr/lr", step, optimizer.lr, 1)}
    /\ batch' = 0
    /\ pc' = "batch"
    /\ tr' = [tr EXCEPT !.lr = optimizer.lr, !.bnm = bn_momentum]
    /\ ev' = Event("epoch_head", NoPath)
    /\ UNCHANGED <<trainerVars, saveRet, tsRet, save_model_file_path,
                   model_dict, losses, epoch, fs, clock, calls, pre,
                   preDest, savedState, ts>>
    /\ UNCHANGED obsVars

\* line 199-200: the next batch of the epoch, self.trainStep(data)
trainBatch(ls) ==
    /\ pc = "batch"
    /\ batch < NumBatches
    /\ calls' = calls
    /\ trainStepForward(ls, "incr")

\* self.scheduler.step(): LambdaLR sets lr = base_lr * lr_lambda(last_epoch)
scheduler_step ==
    /\ scheduler' = scheduler + 1
    /\ optimizer' = [optimizer EXCEPT !.lr = lr_lambda(scheduler + 1)]

\* self.bn_scheduler.step(): the model's BN layers get bnm_lambda(epoch)
bn_scheduler_step ==
    /\ bn_scheduler' = bn_scheduler + 1
    /\ bn_momentum' = bnm_lambda(bn_scheduler + 1)

trainIncrObserved ==
    /\ batch' = batch + 1
    /\ pc' = "batch"
    /\ ts' = NoTs
    /\ ev' = Event("incr", NoPath)
    /\ written' = {}
    /\ UNCHANGED <<model, loss_min, log_folder_name, summary_writer, restored,
                   saveRet, tsRet, save_model_file_path, model_dict, losses,
                   epoch, fs, clock, calls, pre, preDest, savedState, tr>>
    /\ UNCHANGED obsVars

\* line 201: self.step += 1
trainIncr_andSchedule ==
    /\ pc = "incr"
    /\ step' = step + 1
    /\ scheduler_step
    /\ bn_scheduler_step
    /\ trainIncrObserved
trainIncr_twice ==
    /\ pc = "incr"
    /\ step' = step + 2
    /\ trainIncrObserved
    /\ UNCHANGED <<optimizer, scheduler, bn_scheduler, bn_momentum>>
trainIncr ==
    /\ pc = "incr"
    /\ step' = step + 1
    /\ trainIncrObserved
    /\ UNCHANGED <<optimizer, scheduler, bn_scheduler, bn_momentum>>

\* lines 203-207: the batches are used up; both schedulers advance and
\* saveModel("model_last.pth") is entered; the loop goes on with epoch + 1
trainEpochEnd_early ==
    /\ pc = "batch"
    /\ batch > 0
    /\ scheduler_step
    /\ bn_scheduler_step
    /\ saveModelEnter(LastPath(log_folder_name), "epoch", optimizer', loss_min)
    /\ epoch' = epoch + 1
    /\ ev' = Event("epoch_end", NoPath)
    /\ written' = {}
    /\ UNCHANGED <<model, step, loss_min, log_folder_name, summary_writer,
                   restored, tsRet, losses, batch, clock, calls, pre,
                   savedState,
                   ts, tr>>
    /\ UNCHANGED <<coldName, prior, workers>>
    /\ lineage' = [lineage EXCEPT !.epochs = @ + 1]
trainEpochEnd ==
    /\ pc = "batch"
    /\ batch = NumBatches
    /\ scheduler_step
    /\ bn_scheduler_step
    /\ saveModelEnter(LastPath(log_folder_name), "epoch", optimizer', loss_min)
    /\ epoch' = epoch + 1
    /\ ev' = Event("epoch_end", NoPath)
    /\ written' = {}
    /\ UNCHANGED <<model, step, loss_min, log_folder_name, summary_writer,
                   restored, tsRet, losses, batch, clock, calls, pre,
                   savedState,
                   ts, tr>>
    /\ UNCHANGED <<coldName, prior, workers>>
    /\ lineage' = [lineage EXCEPT !.epochs = @ + 1]

\* ------------------------------------------------------ specification
Next ==
    \/ Restart
    \/ pc = "ready" /\ \E r \in Readable : loadModelMissing(r[1], r[2])
    \/ pc = "ready" /\ \E r \in Readable : loadModelExisting(r[1], r[2])
    \/ pc = "ready" /\ \E r \in Readable : loadModelCorrupt(r[1], r[2])
    \/ pc = "ready" /\ \E r \in Readable : loadModelBadModel(r[1], r[2])
    \/ pc = "ready" /\ \E r \in Readable : loadModelBadOptimizer(r[1], r[2])
    \/ pc = "ready" /\ \E p \in ClientSavePaths : saveModelCall(p)
    \/ torchSave
    \/ saveRemove
    \/ saveRename
    \/ pc = "ready" /\ \E ls \in LossMaps : trainStepCall(ls)
    \/ trainStepRest
    \/ callWithoutWriter
    \/ trainCall
    \/ trainEpochHead
    \/ pc = "batch" /\ \E ls \in LossMaps : trainBatch(ls)
    \/ trainIncr
    \/ trainEpochEnd

Spec == Init /\ [][Next]_vars

\* the two schedules alone, epoch after epoch (lines 203-204)
advanceSchedules ==
    /\ scheduler < MaxSchedEpoch
    /\ scheduler_step
    /\ bn_scheduler_step
    /\ UNCHANGED <<model, step, loss_min, log_folder_name, summary_writer,
                   restored, pc, localVars, fs, clock, calls, ev, written, pre,
                   preDest, savedState, ts, tr>>
    /\ UNCHANGED obsVars

SpecSched == Init /\ [][advanceSchedules]_vars

\* the worker pool alone: the DataLoader starts worker 0 .. num_workers - 1,
\* each runs worker_init_fn on its copy of the inherited random state
InitSeed ==
    /\ InitTrainer
    /\ workers \in [word : SeedWords, build : Builds, seeds : {<<>>}]

startWorker ==
    /\ Len(workers.seeds) < num_workers
    /\ workers' = [workers EXCEPT !.seeds =
                       Append(@, worker_init_fn(workers.word, Len(@),
                                                workers.build))]
    /\ UNCHANGED <<trainerVars, pc, localVars, fs, clock, calls, ev, written,
                   pre, preDest, savedState, ts, tr, coldName, prior,
                   lineage>>

SpecSeed == InitSeed /\ [][startWorker]_vars

\* ------------------------------------------------------------ claims
InTrainStep == pc = "ts_rest" \/ (pc \in SavePcs /\ saveRet = "ts_rest")
InEpoch == tr.active /\ (pc \in {"batch", "incr"} \/ InTrainStep)

\* C1: a load of a file that saveModel wrote leaves step, loss_min,
\* log_folder_name, model weights and optimizer state equal to what the
\* trainer held when that save was made, on the same trainer or a new one.
C1_RoundTrip ==
    ev.op = "load_ok" =>
        /\ savedState[ev.path].valid
        /\ Snapshot = savedState[ev.path].s
\* a newly constructed trainer has loaded a checkpoint made after training
C1_Witness ==
    /\ ev.op = "load_ok"
    /\ pre.step = 0 /\ pre.loss_min = Inf
    /\ step > 0 /\ loss_min # Inf /\ model > 0

\* C2: when the process ends inside saveModel after the temporary file was
\* written and before the rename is done, the destination holds what it
\* held before the save (nothing, when this was the first save to it).
C2_CrashAtomicity ==
    (ev.op = "restart" /\ ev.at \in {"sv_remove", "sv_rename"}) =>
        fs[ev.path] = preDest

\* C3: model_best.pth and model_last.pth are at every moment absent or one
\* complete bundle, during a save the previous one; partly written bytes
\* are only ever at a "_tmp.pth" path.
C3_NoTruncatedDest ==
    /\ \A p \in DestPaths : fs[p].kind \in {"absent", "bundle"}
    /\ \A p \in Paths : fs[p].kind = "partial" => p.tmp
    /\ pc \in SavePcs => fs[save_model_file_path] \in {Absent, preDest}
    /\ (ev.op = "restart" /\ ev.at \in SavePcs) =>
           fs[ev.path] \in {Absent, preDest}
\* the process ended while the temporary file was being written, over an
\* existing checkpoint
C3_Witness ==
    /\ ev.op = "restart"
    /\ ev.at = "sv_write"
    /\ fs[tmp_save_model_file_path(ev.path)].kind = "partial"
    /\ fs[ev.path].kind = "bundle"

\* C4: a trainStep writes model_best.pth exactly when its aggregate loss is
\* strictly below loss_min as it was before the step; otherwise loss_min
\* stays as it was.
C4_BestTracking ==
    ev.op = "ts_done" =>
        /\ ts.wroteBest <=> LessThan(ts.loss, ts.prevMin)
        /\ LessThan(ts.loss, ts.prevMin) => loss_min = ts.loss
        /\ ~LessThan(ts.loss, ts.prevMin) => loss_min = ts.prevMin
\* a step whose loss equals the running minimum wrote nothing
C4_Witness ==
    /\ ev.op = "ts_done"
    /\ ts.loss = ts.prevMin
    /\ ~ts.wroteBest

C6_AllOrNone ==
    ev.op = "load_fail" => Snapshot = pre

\* C7: inside an epoch of train the learning rate and the BN momentum are
\* the ones the epoch started with, for every step of the epoch; the
\* schedulers have advanced exactly once per finished epoch.
C7_EpochOrdering ==
    InEpoch =>
        /\ optimizer.lr = tr.lr
        /\ bn_momentum = tr.bnm
        /\ scheduler = tr.sched + epoch
        /\ bn_scheduler = tr.sched + epoch
\* the last batch of the second epoch, under a rate other than the
\* first epoch's
C7_Witness ==
    /\ InEpoch
    /\ pc = "incr"
    /\ epoch = 1
    /\ batch = NumBatches - 1
    /\ optimizer.lr # lr_lambda(0)
    /\ optimizer.lr = tr.lr

\* C8: trainStep leaves the step counter alone: what it logs and the best
\* checkpoint it writes carry the step index it was entered with; in train
\* the counter is the value at the start of train plus the number of
\* trainStep calls that have returned, less one between a return and the
\* increment that follows it.
C8_StepDiscipline ==
    /\ (InTrainStep \/ ev.op = "ts_done") =>
           /\ step = ts.step
           /\ \A w \in written : w.step = ts.step
    /\ (ev.op = "ts_done" /\ ts.wroteBest) =>
           fs[BestPath(log_folder_name)].model_dict.step = ts.step
    /\ tr.active =>
           step = tr.start + tr.processed - (IF pc = "incr" THEN 1 ELSE 0)
\* a resumed train has processed more than one epoch's batches
C8_Witness ==
    /\ tr.active
    /\ tr.start > 0
    /\ tr.processed > NumBatches
    /\ pc = "incr"

\* C9: once loadModel has restored a checkpoint, the logging stream, every
\* scalar written and every checkpoint saved go to the namespace that the
\* checkpoint stored.
C9_ResumeNamespace ==
    restored # NoWriter =>
        /\ log_folder_name = restored
        /\ summary_writer = restored
        /\ \A w \in written : w.dir = restored
        /\ pc \in SavePcs => save_model_file_path.dir = restored
\* a trainer constructed under another name writes a best checkpoint and
\* scalars into the restored namespace
C9_Witness ==
    /\ restored # NoWriter
    /\ restored # clock
    /\ ev.op = "ts_done"
    /\ ts.wroteBest
    /\ written # {}

\* C10: the learning-rate multiplier is 1.0 at epoch 0, never below 0.02
\* and never rises from one epoch to the next; the BN momentum is never
\* below 0.01 and never rises.
C10_ScheduleShape ==
    /\ [](/\ optimizer.lr >= LnLowestDecay
          /\ bn_momentum >= LnBnLowestDecay
          /\ scheduler = 0 => optimizer.lr = 0)
    /\ [][/\ optimizer'.lr <= optimizer.lr
          /\ bn_momentum' <= bn_momentum]_vars
\* both schedules have reached their floors
C10_Witness ==
    /\ scheduler > 0
    /\ optimizer.lr = LnLowestDecay
    /\ bn_momentum = LnBnLowestDecay
    /\ lr_lambda(scheduler - 1) > LnLowestDecay

\* C11: a run that starts without resuming (Trainer constructed, first
\* loadModel on a path with no file) has a log namespace that no earlier
\* un-resumed run had.
C11_DistinctRuns ==
    coldName # NoWriter => coldName \notin prior

\* C12: the model_best.pth that a trainStep writes holds the parameters
\* and optimizer state as they are before that step's backward and
\* optimizer.step, a loss_min equal to that step's aggregate loss, and the
\* step index the trainStep was entered with.
C12_BestContent ==
    /\ (pc = "ts_rest" /\ ts.wroteBest) =>
           fs[BestPath(log_folder_name)] =
               Bundle([model |-> model, optimizer |-> optimizer,
                       step |-> ts.step, loss_min |-> ts.loss,
                       log_folder_name |-> log_folder_name])
    /\ (ev.op = "ts_done" /\ ts.wroteBest) =>
           LET d == fs[BestPath(log_folder_name)].model_dict
           IN  /\ d.model = model - 1
               /\ d.optimizer.t = optimizer.t - 1
               /\ d.loss_min = ts.loss
               /\ d.loss_min = loss_min
               /\ d.step = ts.step
\* inside train, a later batch lowers a minimum that an earlier one set
C12_Witness ==
    /\ ev.op = "ts_done"
    /\ ts.wroteBest
    /\ tr.active
    /\ ts.step > 0
    /\ ts.prevMin # Inf

\* C13: a run resumed on a new Trainer from the model_last.pth of an
\* epoch end trains every later epoch under the learning rate and the BN
\* momentum that the schedules give for that epoch's index counted from
\* the start of the original run.
C13_ResumeSchedule ==
    (InEpoch /\ lineage.resumed = "last") =>
        /\ optimizer.lr = lr_lambda(lineage.epochs)
        /\ bn_momentum = bnm_lambda(lineage.epochs)

\* C14: in every epoch of train the learning rate is logged under the
\* step the epoch starts with, then every batch is processed, then both
\* schedulers advance, then model_last.pth is saved: the save begins only
\* when all batches are done, holds the advanced learning rate and the
\* step count of the epoch boundary, and the file is not written again
\* before the next boundary.
C14_EpochEvents ==
    /\ [](/\ (tr.active /\ ev.op = "epoch_head") =>
                /\ written = {Scalar("Lr/lr", step, optimizer.lr, 1)}
                /\ step = tr.start + epoch * NumBatches
                /\ batch = 0
          /\ (tr.active /\ pc \in SavePcs /\ saveRet = "epoch") =>
                /\ save_model_file_path = LastPath(log_folder_name)
                /\ batch = NumBatches
                /\ step = tr.start + epoch * NumBatches
                /\ scheduler = tr.sched + epoch
                /\ bn_scheduler = tr.sched + epoch
                /\ model_dict.step = step
                /\ model_dict.optimizer = optimizer
                /\ optimizer.lr = lr_lambda(scheduler)
          /\ (tr.active /\ epoch > 0 /\ (pc = "epoch" \/ InEpoch)) =>
                /\ fs[LastPath(log_folder_name)].kind = "bundle"
                /\ fs[LastPath(log_folder_name)].model_dict.step =
                       tr.start + epoch * NumBatches)
    /\ [][/\ (tr.active /\ tr'.active /\ scheduler' # scheduler) =>
                /\ pc = "batch" /\ batch = NumBatches
                /\ pc' = "sv_write" /\ saveRet' = "epoch"
                /\ scheduler' = scheduler + 1
                /\ bn_scheduler' = bn_scheduler + 1
          /\ (tr.active /\ tr'.active /\ step' # step) =>
                /\ pc = "incr"
                /\ step' = step + 1
                /\ batch' = batch + 1]_vars
\* the second epoch's model_last.pth is being written over the first's
C14_Witness ==
    /\ tr.active
    /\ pc = "sv_rename"
    /\ saveRet = "epoch"
    /\ epoch = 2
    /\ preDest.kind = "bundle"
    /\ preDest.model_dict.step = step - NumBatches

\* C15: on a run that was resumed from the model_last.pth of an epoch end,
\* a trainStep that overwrites a model_best.pth written by an earlier
\* trainStep stores a loss_min strictly below the one it replaces.
C15_BestNeverWorse ==
    (/\ pc \in {"sv_write", "sv_remove"}
     /\ saveRet = "ts_rest"
     /\ lineage.resumed = "last"
     /\ preDest.kind = "bundle"
     /\ savedState[save_model_file_path].by = "ts_rest") =>
        LessThan(model_dict.loss_min, preDest.model_dict.loss_min)

\* C16: the value logged as Loss/loss_sum and compared with loss_min is the
\* sum of the totals of all loss terms (every element of every term, a
\* scalar term being one element); the value logged under a term's own
\* name is that term's total divided by its number of elements.
C16_LossAggregation ==
    /\ [](ev.op = "ts_forward" =>
            LET total == SumSeq([i \in 1..Len(losses) |->
                                    SumSeq(losses[i].elems)])
            IN  /\ written = {Scalar("Loss/loss_sum", step, total, 1)}
                /\ ts.loss = total
                /\ ts.wroteBest = FALSE
                /\ (pc \in SavePcs) <=> LessThan(total, ts.prevMin))
    /\ [][ev'.op = "ts_done" =>
            written' = {Scalar("Loss/" \o losses[i].key, step,
                               SumSeq(losses[i].elems),
                               Len(losses[i].elems)) :
                           i \in 1..Len(losses)}]_vars
\* a loss map whose aggregate is not the sum of the per-term means: the
\* terms 1 and (0, 1) give the aggregate 2 and the means 1 and 1/2
C16_Witness ==
    /\ ev.op = "ts_forward"
    /\ Len(losses) = 2
    /\ losses[2].elems = <<0, 1>>
    /\ ts.loss = 2
    /\ 2 * ts.loss # 2 * loss_mean(losses[1]).num + loss_mean(losses[2]).num
    /\ loss_mean(losses[2]) = [num |-> 1, den |-> 2]

\* C17: every started worker has passed s + worker_id to np.random.seed,
\* the seed is in 0 .. 2^32 - 1 and was taken, and two workers never have
\* the same seed.
C17_WorkerSeeds ==
    /\ \A i \in 1..Len(workers.seeds) :
          /\ workers.seeds[i].seed = AddWide(workers.word, i - 1)
          /\ workers.seeds[i].seed.hi < HalfWord
          /\ workers.seeds[i].ok
    /\ \A i, j \in 1..Len(workers.seeds) :
          i # j => workers.seeds[i].seed # workers.seeds[j].seed
====
